---- MODULE Spec2Model ----
(***************************************************************************)
(* Model of the geohash-16 core (src/src/core.rs): encode, decode_bbox,    *)
(* hash_value_of_char, decode, neighbor and neighbors.                     *)
(*                                                                         *)
(* The functions are pure; every action applies one of them to inputs      *)
(* drawn from bounded sets and records the call and its outcome.           *)
(*                                                                         *)
(* f64 values are modelled bit-exactly.  A finite value is a sign and a    *)
(* magnitude; the magnitude is a binary fixed-point number held in four    *)
(* limbs of LimbBits bits, the first limb holding the weights 2^9 .. 2^-14.*)
(* Every f64 the program computes on the modelled inputs is a multiple of  *)
(* 2^-70 below 1024 in magnitude, so the carrier holds it exactly; the     *)
(* rounding of an f64 addition (round to nearest, ties to even, MantBits   *)
(* significant bits) is applied explicitly by Round.                       *)
(***************************************************************************)
EXTENDS Integers, Sequences, FiniteSets, TLC

\* ---------------------------------------------------------------- bounds
MaxLen == 33
MaxShort == 1
GridBits == 3

\* ------------------------------------------------------ program constants
MantBits == 53
I8Max == 127

\* ------------------------------------------------------------ f64 carrier
\* A magnitude is a tuple of four limbs <<m1, m2, m3, m4>> in base 2^24:
\* sum of m_i * 2^(10 - 24 i), i.e. weights 2^9 down to 2^-86.
Base == 2^24
LimbBits == CHOOSE k \in 1..30 : 2^k = Base
IntShift == 2^(LimbBits - 10)

MagZero == <<0, 0, 0, 0>>
PadLimb(s, i) == IF i <= Len(s) THEN s[i] ELSE 0
Pad(s) == <<PadLimb(s, 1), PadLimb(s, 2), PadLimb(s, 3), PadLimb(s, 4)>>
MagInt(n) == <<n * IntShift, 0, 0, 0>>

MagLt(a, b) == \E i \in DOMAIN a : a[i] < b[i] /\ \A j \in 1..(i-1) : a[j] = b[j]

\* carry out of limb i+1 into limb i
RECURSIVE CarryIn(_, _, _)
CarryIn(a, b, i) ==
    IF i = Len(a) THEN 0
    ELSE (a[i+1] + b[i+1] + CarryIn(a, b, i+1)) \div Base

AddLimb(a, b, i) == (a[i] + b[i] + CarryIn(a, b, i)) % Base
MagAdd(a, b) == <<AddLimb(a, b, 1), AddLimb(a, b, 2), AddLimb(a, b, 3), AddLimb(a, b, 4)>>

RECURSIVE BorrowIn(_, _, _)
BorrowIn(a, b, i) ==
    IF i = Len(a) THEN 0
    ELSE IF a[i+1] - b[i+1] - BorrowIn(a, b, i+1) < 0 THEN 1 ELSE 0

\* a - b for magnitudes with b <= a
SubLimb(a, b, i) == (a[i] - b[i] - BorrowIn(a, b, i) + Base) % Base
MagSub(a, b) == <<SubLimb(a, b, 1), SubLimb(a, b, 2), SubLimb(a, b, 3), SubLimb(a, b, 4)>>

HalfLimb(a, i) == (a[i] \div 2) + (IF i > 1 THEN (a[i-1] % 2) * (Base \div 2) ELSE 0)
MagHalf(a) == <<HalfLimb(a, 1), HalfLimb(a, 2), HalfLimb(a, 3), HalfLimb(a, 4)>>

DoubleLimb(a, i) == ((a[i] * 2) % Base) + (IF i < Len(a) THEN (a[i+1] * 2) \div Base ELSE 0)
MagDouble(a) == <<DoubleLimb(a, 1), DoubleLimb(a, 2), DoubleLimb(a, 3), DoubleLimb(a, 4)>>

\* Bits are indexed from the most significant bit of limb 1 (index 0).
LimbOf(g) == (g \div LimbBits) + 1
WeightOf(g) == 2^(LimbBits - 1 - (g % LimbBits))
BitAt(m, g) == (m[LimbOf(g)] \div WeightOf(g)) % 2
AnyAfter(m, g) ==
    \/ (m[LimbOf(g)] % WeightOf(g)) # 0
    \/ \E i \in DOMAIN m : i > LimbOf(g) /\ m[i] # 0
TruncLimb(m, g, i) ==
    IF i < LimbOf(g) THEN m[i]
    ELSE IF i = LimbOf(g) THEN m[i] - (m[i] % WeightOf(g))
    ELSE 0
Trunc(m, g) == <<TruncLimb(m, g, 1), TruncLimb(m, g, 2), TruncLimb(m, g, 3), TruncLimb(m, g, 4)>>
UnitLimb(g, i) == IF i = LimbOf(g) THEN WeightOf(g) ELSE 0
Unit(g) == <<UnitLimb(g, 1), UnitLimb(g, 2), UnitLimb(g, 3), UnitLimb(g, 4)>>

TopLimb(m) == CHOOSE i \in DOMAIN m : m[i] # 0 /\ \A j \in 1..(i-1) : m[j] = 0
BitLen(x) == CHOOSE k \in 1..LimbBits : 2^(k-1) <= x /\ x < 2^k
TopIdxIn(m, t) == (t - 1) * LimbBits + (LimbBits - BitLen(m[t]))
TopIdx(m) == TopIdxIn(m, TopLimb(m))

\* Round a magnitude to its significant bits 0 .. q counted from its leading
\* bit's index, nearest, ties to even.
RoundAt(m, q) ==
    IF q >= (Len(m) * LimbBits) - 1 THEN m
    ELSE IF BitAt(m, q + 1) = 1 /\ (BitAt(m, q) = 1 \/ AnyAfter(m, q + 1))
    THEN MagAdd(Trunc(m, q), Unit(q))
    ELSE Trunc(m, q)

\* Round a magnitude to MantBits significant bits, nearest, ties to even.
Round(m) == IF m = MagZero THEN m ELSE RoundAt(m, TopIdx(m) + MantBits - 1)

\* ------------------------------------------------------------- f64 values
NaN == [nan |-> TRUE, neg |-> FALSE, mag |-> MagZero]
Fin(neg, m) == [nan |-> FALSE, neg |-> neg /\ m # MagZero, mag |-> m]
FInt(n) == IF n < 0 THEN Fin(TRUE, MagInt(0 - n)) ELSE Fin(FALSE, MagInt(n))

\* exact (unrounded) sum of two finite values
RAdd(a, b) ==
    IF a.neg = b.neg THEN Fin(a.neg, MagAdd(a.mag, b.mag))
    ELSE IF MagLt(a.mag, b.mag) THEN Fin(b.neg, MagSub(b.mag, a.mag))
    ELSE Fin(a.neg, MagSub(a.mag, b.mag))
FNeg(a) == IF a.nan THEN a ELSE Fin(~a.neg, a.mag)
RSub(a, b) == RAdd(a, FNeg(b))
RLt(a, b) ==
    IF a.neg # b.neg THEN a.neg
    ELSE IF a.neg THEN MagLt(b.mag, a.mag) ELSE MagLt(a.mag, b.mag)
RLe(a, b) == ~RLt(b, a)
RAbs(a) == Fin(FALSE, a.mag)

\* f64 operators: + - (rounded), / 2f64 and 2f64 * (exact), < > (false on NaN)
Rounded(r) == Fin(r.neg, Round(r.mag))
FAdd(a, b) == IF a.nan \/ b.nan THEN NaN ELSE Rounded(RAdd(a, b))
FSub(a, b) == FAdd(a, FNeg(b))
FHalf(a) == IF a.nan THEN a ELSE Fin(a.neg, MagHalf(a.mag))
FDouble(a) == IF a.nan THEN a ELSE Fin(a.neg, MagDouble(a.mag))
FAbs(a) == IF a.nan THEN a ELSE Fin(FALSE, a.mag)
FLt(a, b) == ~a.nan /\ ~b.nan /\ RLt(a, b)
FGt(a, b) == FLt(b, a)
\* multiplication by a direction component -1, 0 or 1
FMulUnit(a, d) == IF a.nan THEN a
                  ELSE IF d = 0 THEN Fin(FALSE, MagZero)
                  ELSE IF d < 0 THEN Fin(~a.neg, a.mag) ELSE a

\* ------------------------------------------------------------ result types
Ok(v) == [tag |-> "Ok", val |-> v]
InvalidCoordinateRange(c) == [tag |-> "Err", kind |-> "InvalidCoordinateRange", c |-> c]
InvalidHashCharacter(ch) == [tag |-> "Err", kind |-> "InvalidHashCharacter", character |-> ch]
Panic == [tag |-> "Panic"]

Coordinate(x, y) == [x |-> x, y |-> y]
Rect(min, max) == [min |-> min, max |-> max]

\* ------------------------------------------------------------------ encode
\* Characters are their code points: '0'..'9' = 48..57, 'a'..'f' = 97..102.
BASE32_CODES == <<48, 49, 50, 51, 52, 53, 54, 55, 56, 57, 97, 98, 99, 100, 101, 102>>

\* Rust's % on signed integers truncates toward zero.
RustRem(a, b) == IF a >= 0 THEN a % b ELSE 0 - ((0 - a) % b)

\* bits_total += 1 on an i8: with overflow checks (debug builds) the addition
\* panics at i8::MAX, without them (release builds) it wraps to i8::MIN.
I8Incr(n, overflow_checks) ==
    IF n < I8Max THEN [panic |-> FALSE, val |-> n + 1]
    ELSE IF overflow_checks THEN [panic |-> TRUE, val |-> n]
    ELSE [panic |-> FALSE, val |-> 0 - I8Max - 1]

EncodeInit ==
    [out |-> <<>>, bits_total |-> 0, hash_value |-> 0,
     max_lat |-> FInt(90), min_lat |-> FInt(-90),
     max_lon |-> FInt(180), min_lon |-> FInt(-180), panic |-> FALSE]

\* `if c.x > mid { hash_value = (hash_value << 1) + 1; min_lon = mid } else
\* { hash_value <<= 1; max_lon = mid }`, and the same for the latitude.
EncodeLon(st, c, mid) ==
    IF FGt(c.x, mid)
    THEN [st EXCEPT !.hash_value = (st.hash_value * 2) + 1, !.min_lon = mid]
    ELSE [st EXCEPT !.hash_value = st.hash_value * 2, !.max_lon = mid]
EncodeLat(st, c, mid) ==
    IF FGt(c.y, mid)
    THEN [st EXCEPT !.hash_value = (st.hash_value * 2) + 1, !.min_lat = mid]
    ELSE [st EXCEPT !.hash_value = st.hash_value * 2, !.max_lat = mid]
\* variant: the latitude takes the even bits
EncodeNarrowLatFirst(st, c) ==
    IF RustRem(st.bits_total, 2) = 0
    THEN EncodeLat(st, c, FHalf(FAdd(st.max_lat, st.min_lat)))
    ELSE EncodeLon(st, c, FHalf(FAdd(st.max_lon, st.min_lon)))

EncodeNarrow(st, c) ==
    IF RustRem(st.bits_total, 2) = 0
    THEN EncodeLon(st, c, FHalf(FAdd(st.max_lon, st.min_lon)))
    ELSE EncodeLat(st, c, FHalf(FAdd(st.max_lat, st.min_lat)))
EncodeCount(st, inc) == [st EXCEPT !.bits_total = inc.val, !.panic = inc.panic]

\* One pass of the body of `for _ in 0..4`.
EncodeBit(st, c, overflow_checks) ==
    IF st.panic THEN st
    ELSE EncodeCount(EncodeNarrow(st, c), I8Incr(st.bits_total, overflow_checks))

\* `out.push(BASE32_CODES[hash_value]); hash_value = 0`
EncodePush(st) ==
    IF st.panic THEN st
    ELSE IF st.hash_value >= Len(BASE32_CODES) THEN [st EXCEPT !.panic = TRUE]
    ELSE [st EXCEPT !.out = Append(st.out, BASE32_CODES[st.hash_value + 1]),
                    !.hash_value = 0]

\* One pass of the body of `while out.len() < len`: four bits, then one character.
EncodeChar(st, c, overflow_checks) ==
    EncodePush(EncodeBit(EncodeBit(EncodeBit(EncodeBit(st, c, overflow_checks),
                                   c, overflow_checks), c, overflow_checks), c, overflow_checks))

\* n consecutive passes of the body, split in halves to keep the evaluation
\* shallow; a panic ends the run.
RECURSIVE EncodePasses(_, _, _, _)
EncodePasses(st, c, n, overflow_checks) ==
    IF st.panic \/ n = 0 THEN st
    ELSE IF n = 1 THEN EncodeChar(st, c, overflow_checks)
    ELSE EncodePasses(EncodePasses(st, c, n \div 2, overflow_checks),
                      c, n - (n \div 2), overflow_checks)

\* `while out.len() < len`: every pass pushes one character.
EncodeLoop(st, c, len, overflow_checks) ==
    IF ~(Len(st.out) < len) THEN st
    ELSE EncodePasses(st, c, len - Len(st.out), overflow_checks)

\* variant: only the longitude is checked
OutOfRangeLongitudeOnly(c) ==
    FLt(c.x, FInt(-180)) \/ FGt(c.x, FInt(180))

OutOfRange(c) ==
    \/ FLt(c.x, FInt(-180)) \/ FGt(c.x, FInt(180))
    \/ FLt(c.y, FInt(-90)) \/ FGt(c.y, FInt(90))

EncodeResult(st) == IF st.panic THEN Panic ELSE Ok(st.out)

encode(c, len, overflow_checks) ==
    IF OutOfRange(c) THEN InvalidCoordinateRange(c)
    ELSE EncodeResult(EncodeLoop(EncodeInit, c, len, overflow_checks))

\* ------------------------------------------------------------------ decode
\* variant: upper-case digits are folded to lower case
hash_value_of_char_folding(c) ==
    IF 48 <= c /\ c <= 57 THEN Ok(c - 48)
    ELSE IF 97 <= c /\ c <= 102 THEN Ok(c - 87)
    ELSE IF 65 <= c /\ c <= 70 THEN Ok(c - 55)
    ELSE InvalidHashCharacter(c)

hash_value_of_char(c) ==
    IF 48 <= c /\ c <= 57 THEN Ok(c - 48)
    ELSE IF 97 <= c /\ c <= 102 THEN Ok(c - 87)
    ELSE InvalidHashCharacter(c)

DecodeInit ==
    [is_lon |-> TRUE,
     max_lat |-> FInt(90), min_lat |-> FInt(-90),
     max_lon |-> FInt(180), min_lon |-> FInt(-180)]

\* `if bit == 1 { min_lon = mid } else { max_lon = mid }`, and the same for
\* the latitude, then `is_lon = !is_lon`.
DecodeLon(st, bit, mid) ==
    IF bit = 1 THEN [st EXCEPT !.min_lon = mid, !.is_lon = ~st.is_lon]
    ELSE [st EXCEPT !.max_lon = mid, !.is_lon = ~st.is_lon]
DecodeLat(st, bit, mid) ==
    IF bit = 1 THEN [st EXCEPT !.min_lat = mid, !.is_lon = ~st.is_lon]
    ELSE [st EXCEPT !.max_lat = mid, !.is_lon = ~st.is_lon]

\* variant: the bits of a character are taken from the least significant one
DecodeBitReversed(st, hash_value, bs) ==
    IF st.is_lon
    THEN DecodeLon(st, (hash_value \div 2^bs) % 2, FHalf(FAdd(st.max_lon, st.min_lon)))
    ELSE DecodeLat(st, (hash_value \div 2^bs) % 2, FHalf(FAdd(st.max_lat, st.min_lat)))

\* One pass of the body of `for bs in 0..4`, with bit = (hash_value >> (3 - bs)) & 1.
DecodeBit(st, hash_value, bs) ==
    IF st.is_lon
    THEN DecodeLon(st, (hash_value \div 2^(3 - bs)) % 2, FHalf(FAdd(st.max_lon, st.min_lon)))
    ELSE DecodeLat(st, (hash_value \div 2^(3 - bs)) % 2, FHalf(FAdd(st.max_lat, st.min_lat)))

DecodeChar(st, hash_value) ==
    DecodeBit(DecodeBit(DecodeBit(DecodeBit(st, hash_value, 0), hash_value, 1),
                        hash_value, 2), hash_value, 3)

\* One pass of the body of `for c in hash_str.chars()`: `hash_value_of_char(c)?`
\* returns the error of a character that has no hash value.
DecodeWith(st, hv) == IF hv.tag # "Ok" THEN hv ELSE Ok(DecodeChar(st, hv.val))
DecodeStep(before, ch) ==
    IF before.tag # "Ok" THEN before
    ELSE DecodeWith(before.val, hash_value_of_char(ch))

\* The passes for the characters lo .. hi of hash_str, split in halves to keep
\* the evaluation shallow: the bounds reached, or the error of the first
\* character that has no hash value.
RECURSIVE DecodePasses(_, _, _, _)
DecodePasses(before, hash_str, lo, hi) ==
    IF before.tag # "Ok" \/ lo > hi THEN before
    ELSE IF lo = hi THEN DecodeStep(before, hash_str[lo])
    ELSE DecodePasses(DecodePasses(before, hash_str, lo, (lo + hi) \div 2),
                      hash_str, ((lo + hi) \div 2) + 1, hi)

\* `for c in hash_str.chars()` over the first n characters
DecodeLoop(hash_str, n) == DecodePasses(Ok(DecodeInit), hash_str, 1, n)

DecodeRect(r) ==
    IF r.tag # "Ok" THEN r
    ELSE Ok(Rect(Coordinate(r.val.min_lon, r.val.min_lat),
                 Coordinate(r.val.max_lon, r.val.max_lat)))

decode_bbox(hash_str) == DecodeRect(DecodeLoop(hash_str, Len(hash_str)))

\* variant: the errors are the full extents of the bounding box
DecodeCenterFullExtent(c0, c1) ==
    [coord |-> Coordinate(FHalf(FAdd(c0.x, c1.x)), FHalf(FAdd(c0.y, c1.y))),
     lon_err |-> FSub(c1.x, c0.x),
     lat_err |-> FSub(c1.y, c0.y)]

\* centre and half extents of a bounding box
DecodeCenter(c0, c1) ==
    [coord |-> Coordinate(FHalf(FAdd(c0.x, c1.x)), FHalf(FAdd(c0.y, c1.y))),
     lon_err |-> FHalf(FSub(c1.x, c0.x)),
     lat_err |-> FHalf(FSub(c1.y, c0.y))]
DecodeOf(rect) ==
    IF rect.tag # "Ok" THEN rect ELSE Ok(DecodeCenter(rect.val.min, rect.val.max))

decode(hash_str) == DecodeOf(decode_bbox(hash_str))

\* --------------------------------------------------------------- neighbors
\* Direction::to_tuple gives (dlat, dlng).
Directions == <<"SW", "S", "SE", "W", "E", "NW", "N", "NE">>
to_tuple(direction) ==
    CASE direction = "N"  -> [dlat |-> 1,  dlng |-> 0]
      [] direction = "NE" -> [dlat |-> 1,  dlng |-> 1]
      [] direction = "E"  -> [dlat |-> 0,  dlng |-> 1]
      [] direction = "SE" -> [dlat |-> -1, dlng |-> 1]
      [] direction = "S"  -> [dlat |-> -1, dlng |-> 0]
      [] direction = "SW" -> [dlat |-> -1, dlng |-> -1]
      [] direction = "W"  -> [dlat |-> 0,  dlng |-> -1]
      [] direction = "NW" -> [dlat |-> 1,  dlng |-> -1]

\* variant: the step is one error, half a cell, instead of twice the error
NeighborShiftByError(d, t) ==
    Coordinate(FAdd(d.coord.x, FMulUnit(FAbs(d.lon_err), t.dlng)),
               FAdd(d.coord.y, FMulUnit(FAbs(d.lat_err), t.dlat)))

NeighborShift(d, t) ==
    Coordinate(FAdd(d.coord.x, FMulUnit(FDouble(FAbs(d.lon_err)), t.dlng)),
               FAdd(d.coord.y, FMulUnit(FDouble(FAbs(d.lat_err)), t.dlat)))
neighbor_coord(d, direction) == NeighborShift(d, to_tuple(direction))

NeighborOf(d, len, direction, overflow_checks) ==
    IF d.tag # "Ok" THEN d
    ELSE encode(neighbor_coord(d.val, direction), len, overflow_checks)

neighbor(hash_str, direction, overflow_checks) ==
    NeighborOf(decode(hash_str), Len(hash_str), direction, overflow_checks)

\* The fields sw, s, se, w, e, nw, n, ne of the struct literal, in source order.
NeighborFields(hash_str, overflow_checks) ==
    << neighbor(hash_str, Directions[1], overflow_checks),
       neighbor(hash_str, Directions[2], overflow_checks),
       neighbor(hash_str, Directions[3], overflow_checks),
       neighbor(hash_str, Directions[4], overflow_checks),
       neighbor(hash_str, Directions[5], overflow_checks),
       neighbor(hash_str, Directions[6], overflow_checks),
       neighbor(hash_str, Directions[7], overflow_checks),
       neighbor(hash_str, Directions[8], overflow_checks) >>

\* `?` on every field: the first outcome that is not Ok ends the call.
NeighborsOf(fields) ==
    IF \A i \in DOMAIN fields : fields[i].tag = "Ok"
    THEN Ok(<< fields[1].val, fields[2].val, fields[3].val, fields[4].val,
               fields[5].val, fields[6].val, fields[7].val, fields[8].val >>)
    ELSE fields[CHOOSE i \in DOMAIN fields :
                   /\ fields[i].tag # "Ok"
                   /\ \A j \in 1..(i - 1) : fields[j].tag = "Ok"]

neighbors(hash_str, overflow_checks) == NeighborsOf(NeighborFields(hash_str, overflow_checks))

\* ------------------------------------------------------------------ inputs
\* m halved n times: limb i of the magnitude shifted down by n bits
ShiftedLimb(m, j, r) ==
    (IF j >= 1 /\ j <= Len(m) THEN m[j] \div 2^r ELSE 0)
    + (IF j >= 2 /\ j <= Len(m) + 1 THEN (m[j-1] % 2^r) * 2^(LimbBits - r) ELSE 0)
MagHalfN(m, n) ==
    << ShiftedLimb(m, 1 - (n \div LimbBits), n % LimbBits),
       ShiftedLimb(m, 2 - (n \div LimbBits), n % LimbBits),
       ShiftedLimb(m, 3 - (n \div LimbBits), n % LimbBits),
       ShiftedLimb(m, 4 - (n \div LimbBits), n % LimbBits) >>
\* the f64 k / 2^s for an integer k
Scaled(k, s) == IF k < 0 THEN Fin(TRUE, MagHalfN(MagInt(0 - k), s))
                ELSE Fin(FALSE, MagHalfN(MagInt(k), s))

\* Coordinates on the grid that splits each axis into 2^GridBits parts, with
\* one ring of grid points outside the valid range.
GridIdx == (0 - 1)..(2^GridBits + 1)
GridX(i) == Scaled((45 * i) - (180 * 2^(GridBits - 3)), GridBits - 3)
GridY(j) == Scaled((45 * j) - (180 * 2^(GridBits - 3)), GridBits - 2)
GridCoords == {Coordinate(GridX(i), GridY(j)) : i \in GridIdx, j \in GridIdx}

\* f64 literals: the test vectors, the corners of the world, the f64
\* neighbours of the limits, and NaN.
X112_5584 == Fin(FALSE, Pad(<<1844156, 13851269, 8912896>>))
Y37_8324 == Fin(FALSE, Pad(<<619846, 697932, 3112960>>))
XM120_6623 == Fin(TRUE, Pad(<<1976931, 2066953, 196608>>))
Y35_3003 == Fin(FALSE, Pad(<<578360, 1932735, 4751360>>))
X179_99999 == Fin(FALSE, Pad(<<2949119, 14028436, 15597568>>))
Y89_99999 == Fin(FALSE, Pad(<<1474559, 14028436, 15597568>>))
Above180 == Fin(FALSE, Pad(<<2949120, 0, 131072>>))
Above90 == Fin(FALSE, Pad(<<1474560, 0, 65536>>))
\* -179.93092584288974, -89.6465773365994: a point near the south-west corner
XM179_9309 == Fin(TRUE, Pad(<<2947988, 4848781, 10223616>>))
YM89_6466 == Fin(TRUE, Pad(<<1468769, 8775873, 14614528>>))

DeepCoords ==
    { Coordinate(X112_5584, Y37_8324), Coordinate(XM120_6623, Y35_3003),
      Coordinate(FInt(117), FInt(32)), Coordinate(FInt(0), FInt(0)),
      Coordinate(FInt(180), FInt(90)), Coordinate(FInt(-180), FInt(-90)),
      Coordinate(X179_99999, Y89_99999), Coordinate(XM179_9309, YM89_6466),
      Coordinate(FInt(190), FInt(-100)),
      Coordinate(Above180, FInt(0)), Coordinate(FInt(0), Above90),
      Coordinate(FNeg(Above180), FInt(0)), Coordinate(FInt(0), FNeg(Above90)),
      Coordinate(NaN, FInt(0)), Coordinate(FInt(0), NaN) }

EncodeInputs ==
    (GridCoords \X (0..GridBits)) \cup (DeepCoords \X (0..MaxLen))

\* Characters: the alphabet, its neighbours in the code table, and upper case.
HexChars == {BASE32_CODES[i] : i \in DOMAIN BASE32_CODES}
HashChars == HexChars \cup {47, 58, 65, 96, 103}

Longer(shorter, chars, n) ==
    shorter \cup {Append(s, ch) : s \in {t \in shorter : Len(t) = n - 1}, ch \in chars}
RECURSIVE Strings(_, _)
Strings(chars, n) ==
    IF n = 0 THEN {<<>>}
    ELSE Longer(Strings(chars, n - 1), chars, n)

RECURSIVE Rep(_, _)
Rep(ch, n) ==
    IF n = 0 THEN <<>>
    ELSE IF n = 1 THEN <<ch>>
    ELSE Rep(ch, n \div 2) \o Rep(ch, n - (n \div 2))

\* "e7115", "e71150", "e71150dc99", "e65b4a", "4d8c0", "4d8c0f1817", "wwgj"
VectorHashes ==
    { <<101, 55, 49, 49, 53>>, <<101, 55, 49, 49, 53, 48>>,
      <<101, 55, 49, 49, 53, 48, 100, 99, 57, 57>>, <<101, 54, 53, 98, 52, 97>>,
      <<52, 100, 56, 99, 48>>, <<52, 100, 56, 99, 48, 102, 49, 56, 49, 55>>,
      <<119, 119, 103, 106>> }

\* "e7g:", "1A", "/1": characters outside the alphabet after and before
\* characters of it.
MixedHashes == { <<101, 55, 103, 58>>, <<49, 65>>, <<47, 49>> }

\* "05ff516e597852ba8270c26210d" and "0003ec2d8ffd6b0377c793830": cells of 27
\* and 25 characters next to the western edge.
FineHashes ==
    { <<48, 53, 102, 102, 53, 49, 54, 101, 53, 57, 55, 56, 53, 50, 98, 97, 56, 50, 55,
        48, 99, 50, 54, 50, 49, 48, 100>>,
      <<48, 48, 48, 51, 101, 99, 50, 100, 56, 102, 102, 100, 54, 98, 48, 51, 55, 55, 99,
        55, 57, 51, 56, 51, 48>> }

\* '0', '3', '5', 'a', 'c', 'f' repeated: the four corners of the world and
\* two interior points, at the lengths where f64 runs out of precision.
RepChars == {48, 51, 53, 97, 99, 102}
LongLens == {n \in 0..MaxLen : n + 11 > MaxLen}
HashInputs ==
    Strings(HashChars, MaxShort) \cup Strings(HexChars, 2) \cup VectorHashes
        \cup MixedHashes \cup FineHashes
        \cup {Rep(ch, n) : ch \in RepChars, n \in LongLens}

\* ------------------------------------------------------------ state machine
VARIABLES overflow_checks, call, ret
vars == <<overflow_checks, call, ret>>

NoCoord == Coordinate(FInt(0), FInt(0))
Call(fn, c, len, hash_str, direction) ==
    [fn |-> fn, c |-> c, len |-> len, hash_str |-> hash_str, direction |-> direction]
Idle == Call("none", NoCoord, 0, <<>>, "N")

Init ==
    /\ overflow_checks \in BOOLEAN
    /\ call = Idle
    /\ ret = [tag |-> "None"]

CallEncode ==
    /\ call.fn = "none"
    /\ \E in \in EncodeInputs :
         /\ call' = Call("encode", in[1], in[2], <<>>, "N")
         /\ ret' = encode(in[1], in[2], overflow_checks)
    /\ UNCHANGED overflow_checks

CallDecodeBbox ==
    /\ call.fn = "none"
    /\ \E h \in HashInputs :
         /\ call' = Call("decode_bbox", NoCoord, 0, h, "N")
         /\ ret' = decode_bbox(h)
    /\ UNCHANGED overflow_checks

CallDecode ==
    /\ call.fn = "none"
    /\ \E h \in HashInputs :
         /\ call' = Call("decode", NoCoord, 0, h, "N")
         /\ ret' = decode(h)
    /\ UNCHANGED overflow_checks

CallNeighbor ==
    /\ call.fn = "none"
    /\ \E h \in HashInputs, i \in DOMAIN Directions :
         /\ call' = Call("neighbor", NoCoord, 0, h, Directions[i])
         /\ ret' = neighbor(h, Directions[i], overflow_checks)
    /\ UNCHANGED overflow_checks

CallNeighbors ==
    /\ call.fn = "none"
    /\ \E h \in HashInputs :
         /\ call' = Call("neighbors", NoCoord, 0, h, "N")
         /\ ret' = neighbors(h, overflow_checks)
    /\ UNCHANGED overflow_checks

Next == CallEncode \/ CallDecodeBbox \/ CallDecode \/ CallNeighbor \/ CallNeighbors

Spec == Init /\ [][Next]_vars

TypeOK ==
    /\ overflow_checks \in BOOLEAN
    /\ call.fn \in {"none", "encode", "decode_bbox", "decode", "neighbor", "neighbors"}
    /\ ret.tag \in {"None", "Ok", "Err", "Panic"}

\* -------------------------------------------------------------- properties
\* c.x in [-180, 180] and c.y in [-90, 90], as real numbers; NaN is in no interval.
InRange(c) ==
    /\ ~c.x.nan /\ RLe(FInt(-180), c.x) /\ RLe(c.x, FInt(180))
    /\ ~c.y.nan /\ RLe(FInt(-90), c.y) /\ RLe(c.y, FInt(90))

\* C1: encode(c, len) fails with InvalidCoordinateRange carrying c if and only
\* if c.x is outside [-180, 180] or c.y is outside [-90, 90], for every len.
C1_RangeErrorIff ==
    call.fn = "encode" =>
        (ret = InvalidCoordinateRange(call.c) <=> ~InRange(call.c))

\* positions of the characters of h outside 0-9a-f
Offending(h) == {i \in DOMAIN h : h[i] \notin HexChars}
FirstOffending(h) == CHOOSE i \in Offending(h) : \A j \in Offending(h) : i <= j

\* C2: decode_bbox(h) and decode(h) fail, with InvalidHashCharacter, if and
\* only if some character of h is outside 0-9a-f (upper case included); the
\* error carries the first such character from the left, and the value of
\* every accepted character is its index in the encoder's alphabet.
C2_InvalidCharIff ==
    call.fn \in {"decode_bbox", "decode"} =>
        /\ IF Offending(call.hash_str) = {}
           THEN ret.tag = "Ok"
           ELSE ret = InvalidHashCharacter(call.hash_str[FirstOffending(call.hash_str)])
        /\ \A i \in DOMAIN call.hash_str \ Offending(call.hash_str) :
              /\ hash_value_of_char(call.hash_str[i]).tag = "Ok"
              /\ BASE32_CODES[hash_value_of_char(call.hash_str[i]).val + 1] = call.hash_str[i]

\* decode("e7g:") reports 'g', the first of its two offending characters
C2_Witness ==
    /\ call.fn = "decode"
    /\ call.hash_str = <<101, 55, 103, 58>>
    /\ ret = InvalidHashCharacter(103)

\* Lengths up to which f64 holds the cells exactly.  At length n the cell
\* bounds are multiples of 45 * 2^(3 - 2n) and the centres multiples of
\* 45 * 2^(2 - 2n), of magnitude below 2^8: 2n + 5 and 2n + 6 significant bits.
BoundsExactLen == (MantBits - 5) \div 2
CentreExactLen == (MantBits - 6) \div 2

\* |d.coord - c| <= (d.lon_err, d.lat_err) as real numbers, for a decode result d
Within(c, d) ==
    /\ d.tag = "Ok"
    /\ RLe(RAbs(RSub(d.val.coord.x, c.x)), d.val.lon_err)
    /\ RLe(RAbs(RSub(d.val.coord.y, c.y)), d.val.lat_err)

\* C3 (as amended): for every coordinate c inside the valid range and every
\* len up to CentreExactLen (23), decode(encode(c, len)) succeeds and its
\* centre is within (lon_err, lat_err) of c.
C3_RoundTripBound ==
    (call.fn = "encode" /\ InRange(call.c) /\ call.len <= CentreExactLen) =>
        /\ ret.tag = "Ok"
        /\ Within(call.c, decode(ret.val))

\* the point near the south-west corner, encoded at the longest exact length
C3_Witness ==
    /\ call.fn = "encode"
    /\ call.c = Coordinate(XM179_9309, YM89_6466)
    /\ call.len = CentreExactLen
    /\ ret.tag = "Ok"
    /\ Len(ret.val) = call.len
    /\ Within(call.c, decode(ret.val))

\* C3 as stated, for every len: whenever encode(c, len) returns a hash for a
\* coordinate inside the valid range, decode of it succeeds and its centre is
\* within (lon_err, lat_err) of c.
C3_Original ==
    (call.fn = "encode" /\ InRange(call.c) /\ ret.tag = "Ok") =>
        Within(call.c, decode(ret.val))

\* The longest hash whose cells are all wider than two steps of f64: the
\* cells are 45 * 2^(3 - 2n) wide and the step below 180 is 2^(8 - MantBits).
DistinctLen == MantBits \div 2

\* C4 (as amended): for every string h over 0-9a-f of at most DistinctLen (26)
\* characters, encoding the centre returned by decode(h) at length |h| gives h.
C4_DecodeEncode ==
    (call.fn = "decode" /\ ret.tag = "Ok" /\ Len(call.hash_str) <= DistinctLen) =>
        encode(ret.val.coord, Len(call.hash_str), overflow_checks) = Ok(call.hash_str)

\* "ff...f" of 26 characters, the cell in the north-east corner
C4_Witness ==
    /\ call.fn = "decode"
    /\ call.hash_str = Rep(102, DistinctLen)
    /\ ret.tag = "Ok"
    /\ encode(ret.val.coord, DistinctLen, overflow_checks) = Ok(call.hash_str)

\* the outcome of re-encoding is h, unless the run is aborted
ReEncodes(h, r) == r.tag = "Panic" \/ r = Ok(h)

\* C4 as stated, for every string h over 0-9a-f: whenever re-encoding the
\* centre returned by decode(h) at length |h| returns, it returns h.
C4_Original ==
    (call.fn = "decode" /\ ret.tag = "Ok") =>
        ReEncodes(call.hash_str,
                  encode(ret.val.coord, Len(call.hash_str), overflow_checks))

\* the cell with bounding box b touches the world boundary on a side that the
\* direction with tuple t points to
Touches(b, t) ==
    \/ t.dlng = 1 /\ b.max.x = FInt(180)
    \/ t.dlng = -1 /\ b.min.x = FInt(-180)
    \/ t.dlat = 1 /\ b.max.y = FInt(90)
    \/ t.dlat = -1 /\ b.min.y = FInt(-90)

\* c moved by (dlng * 2 * lon_err, dlat * 2 * lat_err), as real numbers
Moved(c, d, t) ==
    Coordinate(RAdd(c.x, FMulUnit(FDouble(d.lon_err), t.dlng)),
               RAdd(c.y, FMulUnit(FDouble(d.lat_err), t.dlat)))

\* r is a hash of len characters whose bounding box is b moved by one cell
AdjacentCell(b, d, t, len, r) ==
    /\ r.tag = "Ok"
    /\ Len(r.val) = len
    /\ decode_bbox(r.val) = Ok(Rect(Moved(b.min, d, t), Moved(b.max, d, t)))

\* C5 (as amended): for every valid geohash h of at most BoundsExactLen (24)
\* characters and each direction d, when the cell of h does not touch the
\* world boundary on a side d points to, neighbor(h, d) returns a string of
\* the length of h whose bounding box is the one of h moved by one cell
\* width and height in the direction d.
C5_Adjacent ==
    (/\ call.fn = "neighbor"
     /\ Offending(call.hash_str) = {}
     /\ Len(call.hash_str) <= BoundsExactLen
     /\ ~Touches(decode_bbox(call.hash_str).val, to_tuple(call.direction))) =>
        AdjacentCell(decode_bbox(call.hash_str).val, decode(call.hash_str).val,
                     to_tuple(call.direction), Len(call.hash_str), ret)

\* neighbor("e7115", W) = "e5bbf": the step carries into the second character
C5_Witness ==
    /\ call.fn = "neighbor"
    /\ call.hash_str = <<101, 55, 49, 49, 53>>
    /\ call.direction = "W"
    /\ ret = Ok(<<101, 53, 98, 98, 102>>)
    /\ AdjacentCell(decode_bbox(call.hash_str).val, decode(call.hash_str).val,
                    to_tuple(call.direction), Len(call.hash_str), ret)

\* C5 as stated, for a valid geohash of any length: whenever neighbor(h, d)
\* returns for a cell that does not touch the world boundary on a side d
\* points to, it returns the hash of the cell moved by one cell.
C5_Original ==
    (/\ call.fn = "neighbor"
     /\ Offending(call.hash_str) = {}
     /\ ret.tag # "Panic"
     /\ ~Touches(decode_bbox(call.hash_str).val, to_tuple(call.direction))) =>
        AdjacentCell(decode_bbox(call.hash_str).val, decode(call.hash_str).val,
                     to_tuple(call.direction), Len(call.hash_str), ret)

\* neighbor(h, d) succeeds for all eight directions
AllSucceed(h, oc) ==
    \A i \in DOMAIN Directions : neighbor(h, Directions[i], oc).tag = "Ok"
\* the first direction, in the order of evaluation, for which it does not
FirstFailing(h, oc) ==
    CHOOSE i \in DOMAIN Directions :
        /\ neighbor(h, Directions[i], oc).tag # "Ok"
        /\ \A j \in 1..(i - 1) : neighbor(h, Directions[j], oc).tag = "Ok"

\* C6: neighbors(h) returns a Neighbors value if and only if neighbor(h, d)
\* succeeds for all eight directions, and otherwise returns the error of the
\* first failing direction in the order SW, S, SE, W, E, NW, N, NE; when h
\* holds a character outside 0-9a-f, neighbor and neighbors return the
\* InvalidHashCharacter of decode for that character.
C6_AllOrNothing ==
    /\ call.fn = "neighbors" =>
          IF AllSucceed(call.hash_str, overflow_checks)
          THEN ret = Ok([i \in DOMAIN Directions |->
                            neighbor(call.hash_str, Directions[i], overflow_checks).val])
          ELSE /\ ret.tag = "Err"
               /\ ret = neighbor(call.hash_str,
                                 Directions[FirstFailing(call.hash_str, overflow_checks)],
                                 overflow_checks)
    /\ (call.fn \in {"neighbor", "neighbors"} /\ Offending(call.hash_str) # {}) =>
          ret = InvalidHashCharacter(call.hash_str[FirstOffending(call.hash_str)])

\* the loop of encode ran to its end and its bit counter counted every bit
CountedAll(st, len) == ~st.panic /\ st.bits_total = 4 * len

\* C7: for every coordinate inside the valid range and every len, encode
\* returns Ok(s) with s of exactly len characters of 0-9a-f, and the i8 bit
\* counter never leaves its range while the 4 * len bits are processed.
C7_EncodeTotal ==
    (call.fn = "encode" /\ InRange(call.c)) =>
        /\ ret.tag = "Ok"
        /\ Len(ret.val) = call.len
        /\ \A i \in DOMAIN ret.val : ret.val[i] \in HexChars
        /\ CountedAll(EncodeLoop(EncodeInit, call.c, call.len, overflow_checks), call.len)

\* d holds strictly smaller errors than the decode result e
Sharper(d, e) ==
    /\ e.tag = "Ok"
    /\ RLt(d.lon_err, e.val.lon_err)
    /\ RLt(d.lat_err, e.val.lat_err)

\* C8 (as amended): for every valid hash h of at most BoundsExactLen (24)
\* characters, decode(h) returns lon_err = 180 / 4^|h| and lat_err =
\* 90 / 4^|h|, and both are strictly smaller than the errors of every
\* shorter prefix of h.
C8_Precision ==
    (call.fn = "decode" /\ ret.tag = "Ok" /\ Len(call.hash_str) <= BoundsExactLen) =>
        /\ ret.val.lon_err = Scaled(180, 2 * Len(call.hash_str))
        /\ ret.val.lat_err = Scaled(90, 2 * Len(call.hash_str))
        /\ \A k \in 0..(Len(call.hash_str) - 1) :
              Sharper(ret.val, decode(SubSeq(call.hash_str, 1, k)))

\* decode("e71150"): 0.0439453125 = 45 / 2^10 and 0.02197265625 = 45 / 2^11
C8_Witness ==
    /\ call.fn = "decode"
    /\ call.hash_str = <<101, 55, 49, 49, 53, 48>>
    /\ ret.tag = "Ok"
    /\ ret.val.lon_err = Scaled(45, 10)
    /\ ret.val.lat_err = Scaled(45, 11)
    /\ Sharper(ret.val, decode(<<101, 55, 49, 49, 53>>))

\* C8 as stated, for a valid hash of any length.
C8_Original ==
    (call.fn = "decode" /\ ret.tag = "Ok") =>
        /\ ret.val.lon_err = Scaled(180, 2 * Len(call.hash_str))
        /\ ret.val.lat_err = Scaled(90, 2 * Len(call.hash_str))
        /\ \A k \in 0..(Len(call.hash_str) - 1) :
              Sharper(ret.val, decode(SubSeq(call.hash_str, 1, k)))

\* largest length at which one cell beyond a world boundary is still a
\* different f64 number from the boundary
EdgeExactLen == (MantBits + 1) \div 2

\* the cell with bounding box b touches the world boundary on some side
TouchesEdge(b) == \E i \in DOMAIN Directions : Touches(b, to_tuple(Directions[i]))

\* r is the range error for the centre of the decode result d moved by one
\* cell in the given direction, and that coordinate is outside the range
OffTheEdge(d, direction, r) ==
    /\ r = InvalidCoordinateRange(neighbor_coord(d, direction))
    /\ ~InRange(r.c)

\* C9 (as amended): for every valid geohash h of at most EdgeExactLen (27)
\* characters, the empty string included, whose bounding box touches the
\* world boundary, neighbor(h, d) returns InvalidCoordinateRange for every
\* direction d that points across that side, with a coordinate outside the
\* valid range, and neighbors(h) fails.
C9_OffEdgeIsError ==
    /\ (/\ call.fn = "neighbor"
        /\ Offending(call.hash_str) = {}
        /\ Len(call.hash_str) <= EdgeExactLen
        /\ Touches(decode_bbox(call.hash_str).val, to_tuple(call.direction))) =>
           OffTheEdge(decode(call.hash_str).val, call.direction, ret)
    /\ (/\ call.fn = "neighbors"
        /\ Offending(call.hash_str) = {}
        /\ Len(call.hash_str) <= EdgeExactLen
        /\ TouchesEdge(decode_bbox(call.hash_str).val)) =>
           (ret.tag = "Err" /\ ret.kind = "InvalidCoordinateRange")

\* neighbor of the north-east corner cell of EdgeExactLen characters, to the east
C9_Witness ==
    /\ call.fn = "neighbor"
    /\ call.hash_str = Rep(102, EdgeExactLen)
    /\ call.direction = "E"
    /\ Touches(decode_bbox(call.hash_str).val, to_tuple(call.direction))
    /\ OffTheEdge(decode(call.hash_str).val, call.direction, ret)

\* C9 as stated, for a valid geohash of any length.
C9_Original ==
    /\ (/\ call.fn = "neighbor"
        /\ Offending(call.hash_str) = {}
        /\ Touches(decode_bbox(call.hash_str).val, to_tuple(call.direction))) =>
           OffTheEdge(decode(call.hash_str).val, call.direction, ret)
    /\ (/\ call.fn = "neighbors"
        /\ Offending(call.hash_str) = {}
        /\ TouchesEdge(decode_bbox(call.hash_str).val)) =>
           (ret.tag = "Err" /\ ret.kind = "InvalidCoordinateRange")

\* the rectangle a lies inside the rectangle b, as real numbers
Contained(a, b) ==
    /\ RLe(b.min.x, a.min.x) /\ RLe(a.max.x, b.max.x)
    /\ RLe(b.min.y, a.min.y) /\ RLe(a.max.y, b.max.y)

\* C10: for every coordinate c inside the valid range and lengths n <= m,
\* encode(c, n) is the first n characters of encode(c, m); and for every
\* valid hash h and every valid extension s, the bounding box of
\* decode_bbox(h followed by s) is contained in the one of decode_bbox(h).
C10_PrefixNesting ==
    /\ (call.fn = "encode" /\ InRange(call.c)) =>
          /\ ret.tag = "Ok"
          /\ \A n \in 0..call.len :
                encode(call.c, n, overflow_checks) = Ok(SubSeq(ret.val, 1, n))
    /\ (call.fn = "decode_bbox" /\ Offending(call.hash_str) = {}) =>
          /\ ret.tag = "Ok"
          /\ \A k \in 0..Len(call.hash_str) :
                /\ decode_bbox(SubSeq(call.hash_str, 1, k)).tag = "Ok"
                /\ Contained(ret.val, decode_bbox(SubSeq(call.hash_str, 1, k)).val)
====
